---- MODULE Spec2Model ----
(***************************************************************************)
(* Model of src/app.py: the agent dashboard.  Three named agents, each     *)
(* with a status, a log, a last heartbeat, a progress value and a task     *)
(* queue kept in the session state; a start / stop / submit handler run by *)
(* the script; one agent_worker thread per effective start; and the        *)
(* heartbeat_status classifier used by the display.                        *)
(***************************************************************************)
EXTENDS Integers, Sequences, FiniteSets, TLC

VARIABLES
    now,              \* the wall clock read by datetime.now()
    agent_status,     \* st.session_state.agent_status
    agent_logs,       \* st.session_state.agent_logs
    last_heartbeat,   \* st.session_state.last_heartbeat
    agent_threads,    \* st.session_state.agent_threads
    agent_queues,     \* st.session_state.agent_queues
    agent_progress,   \* st.session_state.agent_progress (numerator of step / task_steps)
    threads,          \* every threading.Thread started so far, in start order
    ui,               \* the widget values read by the most recent script run
    finished          \* history: per agent, the tasks in the order their outcome was logged

vars == <<now, agent_status, agent_logs, last_heartbeat, agent_threads,
          agent_queues, agent_progress, threads, ui, finished>>

-----------------------------------------------------------------------------
(* Bounds of the model.                                                    *)

MaxStarts == 2        \* threads created (effective starts)
MaxSubmits == 2       \* accepted submissions
MaxFailures == 1      \* task steps that raise
MaxTicks == 1         \* clock ticks that pass under Spec
ControlStarts == 1    \* threads created under SpecControl
ControlSubmits == 1   \* accepted submissions under SpecControl
ClockSubmits == 1     \* accepted submissions under SpecClock
ClockTicks == 3       \* clock ticks that pass under SpecClock
ClassifyTicks == 7    \* clock ticks that pass under SpecClassify
TicksPerSec == 2      \* clock resolution: ticks per second
StartDay == 46330     \* days from 1900-01-01 to the day the program is started
StartSecond == 43199  \* second of that day at which the program is started (11:59:59)
FairStarts == 2       \* threads created under SpecFair
FairSubmits == 1      \* accepted submissions under SpecFair
PairStarts == 2       \* threads created under SpecPair
PairRestarts == 1     \* threads created per agent under SpecPair
PairSubmits == 2      \* accepted submissions under SpecPair
task_steps == 3       \* steps of a task; line 48 sets 20

-----------------------------------------------------------------------------
(* Program constants.                                                      *)

agents == {"Listener", "Planner", "Executor"}

TextTypes == {"Translate Text", "Summarize Text", "Spellcheck Text"}

DocumentType == "Translate Document"

None == << >>

Some(x) == <<x>>

-----------------------------------------------------------------------------
(* Clock and the "%H:%M:%S" conversions.                                   *)

SecPerDay == 24 * 60 * 60

TicksPerDay == SecPerDay * TicksPerSec

StartTime == [day |-> StartDay, tod |-> StartSecond * TicksPerSec]

\* Ticks passed since the program was started.
Elapsed(t) == (t.day - StartDay) * TicksPerDay + (t.tod - StartTime.tod)

\* datetime.strftime("%H:%M:%S"): the date and the fraction of a second are dropped.
strftime(t) ==
    LET s == t.tod \div TicksPerSec
    IN  <<s \div 3600, (s \div 60) % 60, s % 60>>

\* datetime.strptime(str, "%H:%M:%S"): the date defaults to 1900-01-01 (day 0).
strptime(str) ==
    [day |-> 0, tod |-> ((str[1] * 60 + str[2]) * 60 + str[3]) * TicksPerSec]

\* datetime - datetime: a timedelta, normalised to days and a rest within one day.
timedelta(a, b) ==
    IF a.tod >= b.tod
    THEN [days |-> a.day - b.day, ticks |-> a.tod - b.tod]
    ELSE [days |-> a.day - b.day - 1, ticks |-> a.tod - b.tod + TicksPerDay]

\* timedelta.total_seconds() <= secs, for secs of less than a day.
total_seconds_le(d, secs) ==
    \/ d.days < 0
    \/ d.days = 0 /\ d.ticks <= secs * TicksPerSec

\* Order of "%H:%M:%S" strings.
StampLE(x, y) ==
    \/ x[1] < y[1]
    \/ x[1] = y[1] /\ x[2] < y[2]
    \/ x[1] = y[1] /\ x[2] = y[2] /\ x[3] <= y[3]

-----------------------------------------------------------------------------
(* Log entries.                                                            *)

LogEntry(text, arg) == [time |-> strftime(now), text |-> text, arg |-> arg]

RECURSIVE CountText(_, _)
CountText(log, text) ==
    IF log = << >> THEN 0
    ELSE (IF Head(log).text = text THEN 1 ELSE 0) + CountText(Tail(log), text)

RECURSIVE SumOver(_, _)
SumOver(f, S) ==
    IF S = {} THEN 0
    ELSE LET x == CHOOSE y \in S : TRUE IN f[x] + SumOver(f, S \ {x})

\* Number of entries with the given text over all agents' logs.
TotalText(text) == SumOver([a \in agents |-> CountText(agent_logs[a], text)], agents)

-----------------------------------------------------------------------------
(* Initial state: the session state initialisation.                        *)

NoRun == [selected_agent |-> "Listener", button |-> "none",
          task_type |-> "Translate Text", task_input |-> None, uploaded_file |-> None]

Init ==
    /\ now = StartTime
    /\ agent_status = [a \in agents |-> "idle"]
    /\ agent_logs = [a \in agents |-> << >>]
    /\ last_heartbeat = [a \in agents |-> None]
    /\ agent_threads = [a \in agents |-> None]
    /\ agent_queues = [a \in agents |-> << >>]
    /\ agent_progress = [a \in agents |-> 0]
    /\ threads = << >>
    /\ ui = NoRun
    /\ finished = [a \in agents |-> << >>]

-----------------------------------------------------------------------------
(* heartbeat_status and the emoji it returns.                              *)

GreenHeart == "green heart"

YellowHeart == "yellow heart"

YellowCircle == "yellow circle"

RedCircle == "red circle"

\* The value returned on each path of heartbeat_status, under the name the
\* specification gives the path.
Healthy == GreenHeart

Degraded == YellowHeart

Stale == YellowCircle

FreshOptimistic == GreenHeart

Dead == RedCircle

Unknown == YellowCircle

\* heartbeat_status without its elif branch: every status but running is Unknown.
classifyWithoutStopped(status, last_seen, t) ==
    IF status = "running"
    THEN IF last_seen # None
         THEN LET last_time == strptime(last_seen[1])
                  delta == timedelta(t, last_time)
              IN  IF total_seconds_le(delta, 1) THEN Healthy
                  ELSE IF total_seconds_le(delta, 2) THEN Degraded
                  ELSE Stale
         ELSE FreshOptimistic
    ELSE Unknown

\* Lines 68-88, as a function of the three values it reads.
classify(status, last_seen, t) ==
    IF status = "running"
    THEN IF last_seen # None
         THEN LET last_time == strptime(last_seen[1])
                  delta == timedelta(t, last_time)
              IN  IF total_seconds_le(delta, 1) THEN Healthy
                  ELSE IF total_seconds_le(delta, 2) THEN Degraded
                  ELSE Stale
         ELSE FreshOptimistic
    ELSE IF status = "stopped" THEN Dead
    ELSE Unknown

heartbeat_status(a) == classify(agent_status[a], last_heartbeat[a], now)

-----------------------------------------------------------------------------
(* Submission inputs.                                                      *)

Whitespace == {" ", "\t", "\n"}

\* str.strip(): leading and trailing whitespace removed.
RECURSIVE lstrip(_)
lstrip(s) == IF s # << >> /\ Head(s) \in Whitespace THEN lstrip(Tail(s)) ELSE s

RECURSIVE rstrip(_)
rstrip(s) ==
    IF s # << >> /\ s[Len(s)] \in Whitespace THEN rstrip(SubSeq(s, 1, Len(s) - 1)) ELSE s

strip(s) == rstrip(lstrip(s))

\* Truth value of an optional string: None and "" are false.
Truthy(opt) == opt # None /\ opt[1] # << >>

\* bytes.decode("utf-8") on the bytes the model uploads (ASCII).
Utf8Char(b) == CASE b = 32 -> " " [] b = 104 -> "h" [] b = 105 -> "i"

decode(bytes) == [i \in DOMAIN bytes |-> Utf8Char(bytes[i])]

\* The texts a user may type into the text area.
TextInputs == {<< >>, <<" ", "\n">>, <<" ", "h", "i">>}

\* The documents a user may upload.
FileInputs == {<<104, 105>>}

\* The widget values of a run in which "Submit Task" is clicked: the text
\* area exists for the text functions, the uploader for "Translate Document".
SubmitInputs ==
    {[task_type |-> "Summarize Text", task_input |-> Some(t), uploaded_file |-> None] :
        t \in TextInputs}
    \cup {[task_type |-> DocumentType, task_input |-> None, uploaded_file |-> None]}
    \cup {[task_type |-> DocumentType, task_input |-> None, uploaded_file |-> Some(f)] :
        f \in FileInputs}

AcceptedInputs ==
    {[task_type |-> DocumentType, task_input |-> None, uploaded_file |-> Some(<<104, 105>>)]}

\* The condition of line 151 without the call of strip.
HasContentNoStrip(task_input, uploaded_file) ==
    \/ Truthy(task_input)
    \/ uploaded_file # None

\* The condition of line 151.
HasContent(task_input, uploaded_file) ==
    \/ Truthy(task_input) /\ strip(task_input[1]) # << >>
    \/ uploaded_file # None

\* make_task: the closure over task_type and content; id stands for the
\* identity of the function object (the number of the submission to its agent).
make_task(id, task_type, content) == [id |-> id, task_type |-> task_type, content |-> content]

-----------------------------------------------------------------------------
(* Threads.                                                                *)

\* pc values of agent_worker that lie between taking a task and resetting progress.
TaskPcs == {"call", "hb_now", "hb_store", "fail_log", "fail_reset", "ok_log", "ok_reset"}

NewThread(a) ==
    [agent |-> a, pc |-> "check", task |-> None, step |-> 0, stamp |-> None,
     since_stop |-> -1]

\* History kept in a thread: since_stop is -1 until a stop arrives while the
\* thread executes a task, and then counts the steps it has begun since (up to 2).
MarkStop(a) ==
    [i \in DOMAIN threads |->
        IF threads[i].agent = a /\ threads[i].pc \in TaskPcs /\ threads[i].since_stop = -1
        THEN [threads[i] EXCEPT !.since_stop = 0]
        ELSE threads[i]]

ClearStop(a) ==
    [i \in DOMAIN threads |->
        IF threads[i].agent = a THEN [threads[i] EXCEPT !.since_stop = -1] ELSE threads[i]]

-----------------------------------------------------------------------------
(* The handlers of the script run.                                         *)

Clicked(a, button) == [NoRun EXCEPT !.selected_agent = a, !.button = button]

\* The start handler without the test of line 129.
StartUnguarded(a) ==
    /\ ui' = Clicked(a, "start")
    /\ agent_status' = [agent_status EXCEPT ![a] = "running"]
    /\ agent_logs' = [agent_logs EXCEPT ![a] = Append(@, LogEntry("Agent started", ""))]
    /\ threads' = Append(ClearStop(a), NewThread(a))
    /\ agent_threads' = [agent_threads EXCEPT ![a] = Some(Len(threads) + 1)]
    /\ UNCHANGED <<now, last_heartbeat, agent_queues, agent_progress, finished>>

\* Lines 128-140.
StartHandler(a) ==
    /\ ui' = Clicked(a, "start")
    /\ IF agent_status[a] # "running"
       THEN /\ agent_status' = [agent_status EXCEPT ![a] = "running"]
            /\ agent_logs' = [agent_logs EXCEPT ![a] = Append(@, LogEntry("Agent started", ""))]
            /\ threads' = Append(ClearStop(a), NewThread(a))
            /\ agent_threads' = [agent_threads EXCEPT ![a] = Some(Len(threads) + 1)]
       ELSE UNCHANGED <<agent_status, agent_logs, threads, agent_threads>>
    /\ UNCHANGED <<now, last_heartbeat, agent_queues, agent_progress, finished>>

\* The stop handler without the test of line 143.
StopUnguarded(a) ==
    /\ ui' = Clicked(a, "stop")
    /\ agent_status' = [agent_status EXCEPT ![a] = "stopped"]
    /\ agent_logs' = [agent_logs EXCEPT ![a] = Append(@, LogEntry("Agent stopped", ""))]
    /\ threads' = MarkStop(a)
    /\ UNCHANGED <<now, last_heartbeat, agent_threads, agent_queues, agent_progress, finished>>

\* Lines 142-147.
StopHandler(a) ==
    /\ ui' = Clicked(a, "stop")
    /\ IF agent_status[a] = "running"
       THEN /\ agent_status' = [agent_status EXCEPT ![a] = "stopped"]
            /\ agent_logs' = [agent_logs EXCEPT ![a] = Append(@, LogEntry("Agent stopped", ""))]
            /\ threads' = MarkStop(a)
       ELSE UNCHANGED <<agent_status, agent_logs, threads>>
    /\ UNCHANGED <<now, last_heartbeat, agent_threads, agent_queues, agent_progress, finished>>

\* Lines 150-171.
SubmitHandler(a, in) ==
    /\ ui' = [selected_agent |-> a, button |-> "submit", task_type |-> in.task_type,
              task_input |-> in.task_input, uploaded_file |-> in.uploaded_file]
    /\ IF HasContent(in.task_input, in.uploaded_file)
       THEN LET content == IF in.uploaded_file # None
                           THEN decode(in.uploaded_file[1])
                           ELSE in.task_input[1]
                id == CountText(agent_logs[a], "Task queued") + 1
            IN  /\ agent_queues' = [agent_queues EXCEPT
                                      ![a] = Append(@, make_task(id, in.task_type, content))]
                /\ agent_logs' = [agent_logs EXCEPT
                                      ![a] = Append(@, LogEntry("Task queued", in.task_type))]
       ELSE UNCHANGED <<agent_queues, agent_logs>>
    /\ UNCHANGED <<now, agent_status, last_heartbeat, agent_threads, agent_progress,
                   threads, finished>>

-----------------------------------------------------------------------------
(* agent_worker, one action per step of thread i.                          *)

Agent(i) == threads[i].agent

SetThread(i, t) == [threads EXCEPT ![i] = t]

\* The loop condition with the end of the work added: the thread also leaves
\* its loop when it finds the queue empty.
CheckQueueToo(i) ==
    /\ threads[i].pc = "check"
    /\ threads' = SetThread(i, [threads[i] EXCEPT
           !.pc = IF agent_status[Agent(i)] = "running" /\ agent_queues[Agent(i)] # << >>
                  THEN "get" ELSE "exit"])
    /\ UNCHANGED <<now, agent_status, agent_logs, last_heartbeat, agent_threads,
                   agent_queues, agent_progress, ui, finished>>

\* Line 39: the loop condition.
Check(i) ==
    /\ threads[i].pc = "check"
    /\ threads' = SetThread(i, [threads[i] EXCEPT
           !.pc = IF agent_status[Agent(i)] = "running" THEN "get" ELSE "exit"])
    /\ UNCHANGED <<now, agent_status, agent_logs, last_heartbeat, agent_threads,
                   agent_queues, agent_progress, ui, finished>>

\* Queue.get returning the head of the queue without removing it.
GetTaskPeeks(i) ==
    /\ threads[i].pc = "get"
    /\ agent_queues[Agent(i)] # << >>
    /\ threads' = SetThread(i, [threads[i] EXCEPT
           !.pc = "call", !.task = Some(Head(agent_queues[Agent(i)])), !.step = 1,
           !.since_stop = -1])
    /\ UNCHANGED <<now, agent_status, agent_logs, last_heartbeat, agent_threads,
                   agent_queues, agent_progress, ui, finished>>

\* Line 41, a task is there: Queue.get returns the head of the queue.
GetTask(i) ==
    /\ threads[i].pc = "get"
    /\ agent_queues[Agent(i)] # << >>
    /\ threads' = SetThread(i, [threads[i] EXCEPT
           !.pc = "call", !.task = Some(Head(agent_queues[Agent(i)])), !.step = 1,
           !.since_stop = -1])
    /\ agent_queues' = [agent_queues EXCEPT ![Agent(i)] = Tail(@)]
    /\ UNCHANGED <<now, agent_status, agent_logs, last_heartbeat, agent_threads,
                   agent_progress, ui, finished>>

\* Queue.get raising Empty, taken as the end of the worker: the thread leaves
\* its loop instead of storing a heartbeat and continuing.
GetEmptyExits(i) ==
    /\ threads[i].pc = "get"
    /\ agent_queues[Agent(i)] = << >>
    /\ threads' = SetThread(i, [threads[i] EXCEPT !.pc = "exit"])
    /\ UNCHANGED <<now, agent_status, agent_logs, last_heartbeat, agent_threads,
                   agent_queues, agent_progress, ui, finished>>

\* Lines 41-42, the queue stayed empty for the timeout: Queue.get raises Empty.
GetEmpty(i) ==
    /\ threads[i].pc = "get"
    /\ agent_queues[Agent(i)] = << >>
    /\ threads' = SetThread(i, [threads[i] EXCEPT !.pc = "idle_now"])
    /\ UNCHANGED <<now, agent_status, agent_logs, last_heartbeat, agent_threads,
                   agent_queues, agent_progress, ui, finished>>

\* Line 43, right-hand side: the clock is read and formatted.
IdleNow(i) ==
    /\ threads[i].pc = "idle_now"
    /\ threads' = SetThread(i, [threads[i] EXCEPT
           !.pc = "idle_store", !.stamp = Some(strftime(now))])
    /\ UNCHANGED <<now, agent_status, agent_logs, last_heartbeat, agent_threads,
                   agent_queues, agent_progress, ui, finished>>

\* Line 43 with one heartbeat for the whole dashboard: the idle thread stores
\* its time for every agent.
IdleStoreAll(i) ==
    /\ threads[i].pc = "idle_store"
    /\ last_heartbeat' = [a \in agents |-> threads[i].stamp]
    /\ threads' = SetThread(i, [threads[i] EXCEPT !.pc = "check", !.stamp = None])
    /\ UNCHANGED <<now, agent_status, agent_logs, agent_threads, agent_queues,
                   agent_progress, ui, finished>>

\* Lines 43-45: the heartbeat is stored; sleep; continue.
IdleStore(i) ==
    /\ threads[i].pc = "idle_store"
    /\ last_heartbeat' = [last_heartbeat EXCEPT ![Agent(i)] = threads[i].stamp]
    /\ threads' = SetThread(i, [threads[i] EXCEPT !.pc = "check", !.stamp = None])
    /\ UNCHANGED <<now, agent_status, agent_logs, agent_threads, agent_queues,
                   agent_progress, ui, finished>>

\* The history of a thread that begins one more step.
StepBegun(t) == IF t.since_stop = -1 THEN -1 ELSE IF t.since_stop < 2 THEN t.since_stop + 1 ELSE 2

\* Steps that have raised so far.
Failures == TotalText("Task failed")
            + Cardinality({i \in DOMAIN threads : threads[i].pc = "fail_log"})

\* Lines 51-52: task(step, task_steps) returns; progress = step / task_steps.
CallReturns(i) ==
    /\ threads[i].pc = "call"
    /\ agent_progress' = [agent_progress EXCEPT ![Agent(i)] = threads[i].step]
    /\ threads' = SetThread(i, [threads[i] EXCEPT
           !.pc = "hb_now", !.since_stop = StepBegun(threads[i])])
    /\ UNCHANGED <<now, agent_status, agent_logs, last_heartbeat, agent_threads,
                   agent_queues, ui, finished>>

\* Lines 51 and 55: task(step, task_steps) raises.
CallRaises(i) ==
    /\ threads[i].pc = "call"
    /\ threads' = SetThread(i, [threads[i] EXCEPT
           !.pc = "fail_log", !.since_stop = StepBegun(threads[i])])
    /\ UNCHANGED <<now, agent_status, agent_logs, last_heartbeat, agent_threads,
                   agent_queues, agent_progress, ui, finished>>

\* Line 53, right-hand side: the clock is read and formatted.
HbNow(i) ==
    /\ threads[i].pc = "hb_now"
    /\ threads' = SetThread(i, [threads[i] EXCEPT
           !.pc = "hb_store", !.stamp = Some(strftime(now))])
    /\ UNCHANGED <<now, agent_status, agent_logs, last_heartbeat, agent_threads,
                   agent_queues, agent_progress, ui, finished>>

\* The end of a step with a test of the status added: a thread that finds
\* the agent no longer running gives its task up and returns to line 39.
HbStoreChecked(i) ==
    /\ threads[i].pc = "hb_store"
    /\ last_heartbeat' = [last_heartbeat EXCEPT ![Agent(i)] = threads[i].stamp]
    /\ threads' = SetThread(i,
           IF agent_status[Agent(i)] # "running"
           THEN [threads[i] EXCEPT !.pc = "check", !.task = None, !.step = 0, !.stamp = None]
           ELSE IF threads[i].step < task_steps
           THEN [threads[i] EXCEPT !.pc = "call", !.step = @ + 1, !.stamp = None]
           ELSE [threads[i] EXCEPT !.pc = "ok_log", !.stamp = None])
    /\ UNCHANGED <<now, agent_status, agent_logs, agent_threads, agent_queues,
                   agent_progress, ui, finished>>

\* Lines 53-54 and the for statement: the heartbeat is stored; sleep; next
\* step, or the else clause of the for loop after the last step.
HbStore(i) ==
    /\ threads[i].pc = "hb_store"
    /\ last_heartbeat' = [last_heartbeat EXCEPT ![Agent(i)] = threads[i].stamp]
    /\ threads' = SetThread(i,
           IF threads[i].step < task_steps
           THEN [threads[i] EXCEPT !.pc = "call", !.step = @ + 1, !.stamp = None]
           ELSE [threads[i] EXCEPT !.pc = "ok_log", !.stamp = None])
    /\ UNCHANGED <<now, agent_status, agent_logs, agent_threads, agent_queues,
                   agent_progress, ui, finished>>

\* Lines 56-58: the failure is logged.
FailLog(i) ==
    /\ threads[i].pc = "fail_log"
    /\ agent_logs' = [agent_logs EXCEPT ![Agent(i)] = Append(@, LogEntry("Task failed", "error"))]
    /\ finished' = [finished EXCEPT ![Agent(i)] = Append(@, threads[i].task[1].id)]
    /\ threads' = SetThread(i, [threads[i] EXCEPT !.pc = "fail_reset"])
    /\ UNCHANGED <<now, agent_status, last_heartbeat, agent_threads, agent_queues,
                   agent_progress, ui>>

\* The except clause without line 59: progress stays where the failed task left it.
FailResetKeepsProgress(i) ==
    /\ threads[i].pc = "fail_reset"
    /\ threads' = SetThread(i, [threads[i] EXCEPT
           !.pc = "check", !.task = None, !.step = 0, !.since_stop = -1])
    /\ UNCHANGED <<now, agent_status, agent_logs, last_heartbeat, agent_threads,
                   agent_queues, agent_progress, ui, finished>>

\* The except clause ending the worker: progress is reset and the thread
\* leaves its loop.
FailResetExits(i) ==
    /\ threads[i].pc = "fail_reset"
    /\ agent_progress' = [agent_progress EXCEPT ![Agent(i)] = 0]
    /\ threads' = SetThread(i, [threads[i] EXCEPT
           !.pc = "exit", !.task = None, !.step = 0, !.since_stop = -1])
    /\ UNCHANGED <<now, agent_status, agent_logs, last_heartbeat, agent_threads,
                   agent_queues, ui, finished>>

\* Lines 59-60: progress is reset; break.
FailReset(i) ==
    /\ threads[i].pc = "fail_reset"
    /\ agent_progress' = [agent_progress EXCEPT ![Agent(i)] = 0]
    /\ threads' = SetThread(i, [threads[i] EXCEPT
           !.pc = "check", !.task = None, !.step = 0, !.since_stop = -1])
    /\ UNCHANGED <<now, agent_status, agent_logs, last_heartbeat, agent_threads,
                   agent_queues, ui, finished>>

\* Lines 62-64: the completion is logged.
OkLog(i) ==
    /\ threads[i].pc = "ok_log"
    /\ agent_logs' = [agent_logs EXCEPT
           ![Agent(i)] = Append(@, LogEntry("Task completed successfully", ""))]
    /\ finished' = [finished EXCEPT ![Agent(i)] = Append(@, threads[i].task[1].id)]
    /\ threads' = SetThread(i, [threads[i] EXCEPT !.pc = "ok_reset"])
    /\ UNCHANGED <<now, agent_status, last_heartbeat, agent_threads, agent_queues,
                   agent_progress, ui>>

\* Line 65 with a "completed" state added: the worker that has completed a
\* task puts the agent back to idle.
OkResetCompletes(i) ==
    /\ threads[i].pc = "ok_reset"
    /\ agent_progress' = [agent_progress EXCEPT ![Agent(i)] = 0]
    /\ agent_status' = [agent_status EXCEPT ![Agent(i)] = "idle"]
    /\ threads' = SetThread(i, [threads[i] EXCEPT
           !.pc = "check", !.task = None, !.step = 0, !.since_stop = -1])
    /\ UNCHANGED <<now, agent_logs, last_heartbeat, agent_threads,
                   agent_queues, ui, finished>>

\* Line 65: progress is reset.
OkReset(i) ==
    /\ threads[i].pc = "ok_reset"
    /\ agent_progress' = [agent_progress EXCEPT ![Agent(i)] = 0]
    /\ threads' = SetThread(i, [threads[i] EXCEPT
           !.pc = "check", !.task = None, !.step = 0, !.since_stop = -1])
    /\ UNCHANGED <<now, agent_status, agent_logs, last_heartbeat, agent_threads,
                   agent_queues, ui, finished>>

\* The clock advances by one tick.
Tick ==
    /\ now' = IF now.tod + 1 < TicksPerDay
              THEN [now EXCEPT !.tod = @ + 1]
              ELSE [day |-> now.day + 1, tod |-> 0]
    /\ UNCHANGED <<agent_status, agent_logs, last_heartbeat, agent_threads,
                   agent_queues, agent_progress, threads, ui, finished>>

-----------------------------------------------------------------------------

(* The environment: which clicks, task failures and clock ticks a          *)
(* specification explores.  E.agents are the agents the user selects,      *)
(* E.inputs the widget values of a submission; E.redundant tells whether    *)
(* the user also clicks Start on a running agent and Stop on one that is    *)
(* not running; the other fields bound the threads created (in all, and     *)
(* per agent), the accepted submissions, the raising steps and the ticks.   *)

ThreadsOf(a) == {i \in DOMAIN threads : threads[i].agent = a}

Start(E) ==
    \E a \in E.agents :
        /\ IF agent_status[a] = "running"
           THEN E.redundant
           ELSE Len(threads) < E.starts /\ Cardinality(ThreadsOf(a)) < E.restarts
        /\ StartHandler(a)

Stop(E) ==
    \E a \in E.agents :
        /\ agent_status[a] = "running" \/ E.redundant
        /\ StopHandler(a)

Submit(E) ==
    \E a \in E.agents, in \in E.inputs :
        /\ HasContent(in.task_input, in.uploaded_file) => TotalText("Task queued") < E.submits
        /\ SubmitHandler(a, in)

\* One step of thread i.
WorkerStep(E, i) ==
    \/ Check(i)
    \/ GetTask(i)
    \/ GetEmpty(i)
    \/ IdleNow(i)
    \/ IdleStore(i)
    \/ CallReturns(i)
    \/ Failures < E.failures /\ CallRaises(i)
    \/ HbNow(i)
    \/ HbStore(i)
    \/ FailLog(i)
    \/ FailReset(i)
    \/ OkLog(i)
    \/ OkReset(i)

Worker(E) == \E i \in DOMAIN threads : WorkerStep(E, i)

Clock(E) == Elapsed(now) < E.ticks /\ Tick

NextIn(E) == Start(E) \/ Stop(E) \/ Submit(E) \/ Worker(E) \/ Clock(E)

\* One agent restarted while its old thread still runs, two tasks, one failure.
Env ==
    [agents |-> {"Planner"}, inputs |-> AcceptedInputs, redundant |-> FALSE,
     starts |-> MaxStarts, restarts |-> MaxStarts, submits |-> MaxSubmits,
     failures |-> MaxFailures, ticks |-> MaxTicks]

Next == NextIn(Env)

Spec == Init /\ [][Next]_vars

\* Every agent, every kind of click and of submission, one thread.
EnvControl ==
    [agents |-> agents, inputs |-> SubmitInputs, redundant |-> TRUE,
     starts |-> ControlStarts, restarts |-> ControlStarts, submits |-> ControlSubmits,
     failures |-> MaxFailures, ticks |-> MaxTicks]

NextControl == NextIn(EnvControl)

SpecControl == Init /\ [][NextControl]_vars

\* One agent restarted while its old thread still runs, the clock passing
\* from one second into the next.
EnvClock ==
    [agents |-> {"Planner"}, inputs |-> AcceptedInputs, redundant |-> FALSE,
     starts |-> MaxStarts, restarts |-> MaxStarts, submits |-> ClockSubmits,
     failures |-> MaxFailures, ticks |-> ClockTicks]

NextClock == NextIn(EnvClock)

SpecClock == Init /\ [][NextClock]_vars

\* One agent restarted while its old thread still runs, one task; every
\* thread that can take a step eventually takes one (the interpreter switches
\* between the threads, and the script run never holds a thread back).
EnvFair ==
    [agents |-> {"Planner"}, inputs |-> AcceptedInputs, redundant |-> FALSE,
     starts |-> FairStarts, restarts |-> FairStarts, submits |-> FairSubmits,
     failures |-> MaxFailures, ticks |-> MaxTicks]

NextFair == NextIn(EnvFair)

ThreadRuns(i) == i \in DOMAIN threads /\ WorkerStep(EnvFair, i)

SpecFair ==
    /\ Init
    /\ [][NextFair]_vars
    /\ \A i \in 1..FairStarts : WF_vars(ThreadRuns(i))

\* Two agents with a thread and a task each.
EnvPair ==
    [agents |-> {"Listener", "Planner"}, inputs |-> AcceptedInputs, redundant |-> FALSE,
     starts |-> PairStarts, restarts |-> PairRestarts, submits |-> PairSubmits,
     failures |-> MaxFailures, ticks |-> MaxTicks]

NextPair == NextIn(EnvPair)

SpecPair == Init /\ [][NextPair]_vars

-----------------------------------------------------------------------------
(* heartbeat_status over drawn inputs: any status with any heartbeat, at   *)
(* any of the first ticks of the clock.                                     *)

Statuses == {"idle", "running", "stopped"}

\* The heartbeats a worker can have stored during the first two seconds.
Heartbeats ==
    {None} \cup {Some(strftime([StartTime EXCEPT !.tod = @ + k * TicksPerSec])) : k \in 0..1}

InitClassify ==
    /\ now = StartTime
    /\ agent_status \in [agents -> Statuses]
    /\ last_heartbeat \in [agents -> Heartbeats]
    /\ agent_logs = [a \in agents |-> << >>]
    /\ agent_threads = [a \in agents |-> None]
    /\ agent_queues = [a \in agents |-> << >>]
    /\ agent_progress = [a \in agents |-> 0]
    /\ threads = << >>
    /\ ui = NoRun
    /\ finished = [a \in agents |-> << >>]

NextClassify == Elapsed(now) < ClassifyTicks /\ Tick

SpecClassify == InitClassify /\ [][NextClassify]_vars

-----------------------------------------------------------------------------
(* Claims.                                                                 *)

\* The threads of agent a that have not left the loop of agent_worker.
Active(a) == {i \in ThreadsOf(a) : threads[i].pc # "exit"}

\* The threads of agent a that hold a task.
Executing(a) == {i \in ThreadsOf(a) : threads[i].pc \in TaskPcs}

Outcomes(a) ==
    CountText(agent_logs[a], "Task completed successfully")
    + CountText(agent_logs[a], "Task failed")

Submitted(a) == CountText(agent_logs[a], "Task queued")

\* C1: in every reachable state every agent has at most one active worker
\* thread (started and not yet out of its loop).
C1_OneActiveWorker == \A a \in agents : Cardinality(Active(a)) <= 1

\* C2: the tasks of an agent are executed in submission order: the k-th
\* outcome entry of its log is the outcome of the k-th task submitted to it,
\* and once every submitted task is processed there are as many outcome
\* entries as submissions.
C2_SubmissionOrder ==
    \A a \in agents :
        /\ Len(finished[a]) = Outcomes(a)
        /\ \A k \in DOMAIN finished[a] : finished[a][k] = k
        /\ (agent_queues[a] = << >> /\ Executing(a) = {}) => Outcomes(a) = Submitted(a)

\* C3, as claimed: once stop has set the status to Stopped while a thread
\* executes a task, the thread begins at most one more step of that task.
C3_StopAtStepBoundary ==
    \A i \in DOMAIN threads : threads[i].since_stop <= 1

\* C3, amended: the status is read at the loop condition of line 39 only.  A
\* thread leaves its loop only there, on a status other than running; and
\* after a step it goes on to the next step of its task (or to the
\* completion entry after the last), whatever the status is.
C3_StopAtLoopCheckOnly ==
    [][\A i \in DOMAIN threads :
          /\ (threads[i].pc # "exit" /\ threads'[i].pc = "exit")
                => (threads[i].pc = "check" /\ agent_status[Agent(i)] # "running")
          /\ (threads[i].pc = "hb_store" /\ threads'[i].pc # "hb_store")
                => IF threads[i].step < task_steps
                   THEN threads'[i].pc = "call" /\ threads'[i].step = threads[i].step + 1
                   ELSE threads'[i].pc = "ok_log"]_vars

\* A thread that has begun two steps of its task since the stop, the agent
\* still stopped.
C3_Witness ==
    \E i \in DOMAIN threads :
        /\ threads[i].since_stop = 2
        /\ agent_status[Agent(i)] = "stopped"

\* The part of the state that belongs to the agents: everything but the
\* clock and the widget values of the run.
agent_state == <<agent_status, agent_logs, last_heartbeat, agent_threads, agent_queues,
                 agent_progress, threads, finished>>

\* A script run in which the given button was clicked for agent a: the only
\* steps that change ui are the handlers.
Click(a, button) == ui' # ui /\ ui'.selected_agent = a /\ ui'.button = button

\* C4: a start clicked while the status is running changes nothing; so the
\* log of an agent never holds two "Agent started" entries without an "Agent
\* stopped" entry between them, and holds one such entry per thread created.
C4_StartIdempotent ==
    /\ [](\A a \in agents :
            LET started == CountText(agent_logs[a], "Agent started")
                stopped == CountText(agent_logs[a], "Agent stopped")
            IN  /\ started = Cardinality(ThreadsOf(a))
                /\ started = stopped + (IF agent_status[a] = "running" THEN 1 ELSE 0))
    /\ [][\A a \in agents :
            (Click(a, "start") /\ agent_status[a] = "running") => UNCHANGED agent_state]_vars

\* Start was clicked for a running agent whose log ends with a queued task:
\* the click came after the submission and appended nothing.
C4_Witness ==
    /\ ui.button = "start"
    /\ agent_status[ui.selected_agent] = "running"
    /\ CountText(agent_logs[ui.selected_agent], "Agent started") = 1
    /\ agent_logs[ui.selected_agent] # << >>
    /\ agent_logs[ui.selected_agent][Len(agent_logs[ui.selected_agent])].text = "Task queued"

\* C5: a stop clicked while the status is not running (idle or stopped)
\* leaves status, logs, queue, progress and heartbeat as they are.
C5_StopWhenNotRunning ==
    [][\A a \in agents :
          (Click(a, "stop") /\ agent_status[a] # "running") => UNCHANGED agent_state]_vars

\* Stop was clicked for an agent that is idle (and so was idle at the
\* click), after a task was queued for it.
C5_Witness ==
    /\ ui.button = "stop"
    /\ agent_status[ui.selected_agent] = "idle"
    /\ agent_queues[ui.selected_agent] # << >>
    /\ agent_logs[ui.selected_agent][Len(agent_logs[ui.selected_agent])].text = "Task queued"

\* A text of whitespace only (the empty text included).
Blank(text) == \A k \in DOMAIN text : text[k] \in Whitespace

\* The widget values hold no content: no uploaded file, and no text or a blank one.
NoContent(run) ==
    /\ run.uploaded_file = None
    /\ run.task_input = None \/ Blank(run.task_input[1])

\* C6: a submission without content (no uploaded file, and a text that is
\* empty or whitespace only) enqueues nothing, logs nothing and leaves the
\* status, queue, progress and heartbeat of the agent as they are.
C6_EmptySubmitRejected ==
    [][\A a \in agents :
          (Click(a, "submit") /\ NoContent(ui')) => UNCHANGED agent_state]_vars

\* A text of whitespace was submitted to a running agent, and nothing was queued.
C6_Witness ==
    /\ ui.button = "submit"
    /\ ui.task_input # None
    /\ ui.task_input[1] # << >>
    /\ Blank(ui.task_input[1])
    /\ agent_status[ui.selected_agent] = "running"
    /\ Submitted(ui.selected_agent) = 0

\* C7: the progress of every agent is within [0, 1] (0 .. task_steps in
\* units of 1 / task_steps), and is 0 whenever no thread of the agent holds a
\* task: every task, completed or failed, ends with progress back at 0.
C7_ProgressRange ==
    \A a \in agents :
        /\ agent_progress[a] \in 0..task_steps
        /\ Executing(a) = {} => agent_progress[a] = 0

\* A task has failed after a successful step, another has completed, and no
\* thread holds a task any more.
C7_Witness ==
    \E a \in agents :
        /\ CountText(agent_logs[a], "Task failed") = 1
        /\ CountText(agent_logs[a], "Task completed successfully") = 1
        /\ Executing(a) = {}
        /\ agent_progress[a] = 0
        /\ Cardinality(Active(a)) = 2

\* C8: while the status of an agent is running, every write of its
\* last_heartbeat stores a time that is not earlier than the one it replaces.
C8_HeartbeatMonotone ==
    [][\A a \in agents :
          (/\ agent_status[a] = "running"
           /\ last_heartbeat[a] # None
           /\ last_heartbeat'[a] # last_heartbeat[a])
              => StampLE(last_heartbeat[a][1], last_heartbeat'[a][1])]_vars

\* Ticks from the stored heartbeat, taken as a time of the clock's day, to now.
SinceHeartbeat(a) == now.tod - strptime(last_heartbeat[a][1]).tod

\* C9: for a running agent with a heartbeat, the time from the heartbeat to
\* now decides the result: at most 1 s Healthy, more than 1 s and at most 2 s
\* Degraded, more than 2 s Stale.
C9_ElapsedClassification ==
    \A a \in agents :
        (agent_status[a] = "running" /\ last_heartbeat[a] # None /\ SinceHeartbeat(a) >= 0)
            => /\ SinceHeartbeat(a) <= TicksPerSec => heartbeat_status(a) = Healthy
               /\ (SinceHeartbeat(a) > TicksPerSec /\ SinceHeartbeat(a) <= 2 * TicksPerSec)
                     => heartbeat_status(a) = Degraded
               /\ SinceHeartbeat(a) > 2 * TicksPerSec => heartbeat_status(a) = Stale

Labels == {Healthy, Degraded, Stale, Dead, Unknown, FreshOptimistic}

\* C10, as claimed: the result is defined for every status, heartbeat and
\* time; stopped gives Dead, idle gives Unknown, running without a heartbeat
\* gives FreshOptimistic, whatever the heartbeat and the time; and each of
\* these results is none of the other five labels.
C10_SixDistinctLabels ==
    \A a \in agents :
        LET r == heartbeat_status(a)
        IN  /\ r \in Labels
            /\ agent_status[a] = "stopped"
                  => r = Dead /\ r \notin {Healthy, Degraded, Stale, Unknown, FreshOptimistic}
            /\ agent_status[a] = "idle"
                  => r = Unknown /\ r \notin {Healthy, Degraded, Stale, Dead, FreshOptimistic}
            /\ (agent_status[a] = "running" /\ last_heartbeat[a] = None)
                  => /\ r = FreshOptimistic
                     /\ r \notin {Healthy, Degraded, Stale, Dead, Unknown}

\* C10, amended: as claimed, but the six labels are four results: the
\* result for FreshOptimistic is the one for Healthy, and the result for
\* Unknown is the one for Stale.
C10_FourResults ==
    \A a \in agents :
        LET r == heartbeat_status(a)
        IN  /\ r \in Labels
            /\ agent_status[a] = "stopped"
                  => r = Dead /\ r \notin {Healthy, Degraded, Stale, Unknown, FreshOptimistic}
            /\ agent_status[a] = "idle"
                  => r = Unknown /\ r = Stale /\ r \notin {Healthy, Degraded, Dead, FreshOptimistic}
            /\ (agent_status[a] = "running" /\ last_heartbeat[a] = None)
                  => /\ r = FreshOptimistic /\ r = Healthy
                     /\ r \notin {Degraded, Stale, Dead, Unknown}
            /\ Cardinality(Labels) = 4

\* A stopped and an idle agent with a heartbeat two seconds old, and a
\* running one without a heartbeat.
C10_Witness ==
    /\ agent_status["Listener"] = "stopped" /\ last_heartbeat["Listener"] # None
    /\ agent_status["Planner"] = "idle" /\ last_heartbeat["Planner"] # None
    /\ agent_status["Executor"] = "running" /\ last_heartbeat["Executor"] = None
    /\ Elapsed(now) = 2 * TicksPerSec
    /\ heartbeat_status("Listener") = Dead
    /\ heartbeat_status("Planner") = Unknown
    /\ heartbeat_status("Executor") = FreshOptimistic

\* The tasks of agent a whose outcome has been logged.
Done(a) == {finished[a][k] : k \in DOMAIN finished[a]}

\* Every task submitted to agent a so far is dequeued and finished: the queue
\* is empty, no thread holds a task, progress is back at 0, there is one
\* outcome entry per submission, and every one is a completion unless a step
\* has raised.
AllFinished(a) ==
    /\ agent_queues[a] = << >>
    /\ Executing(a) = {}
    /\ agent_progress[a] = 0
    /\ Done(a) = 1..Submitted(a)
    /\ Outcomes(a) = Submitted(a)
    /\ CountText(agent_logs[a], "Task failed") = 0
           => CountText(agent_logs[a], "Task completed successfully") = Submitted(a)

\* C11: under fair scheduling of the threads, a task submitted to an agent
\* that is running and is not stopped is eventually dequeued and finished:
\* from a state in which the agent is running and holds an unfinished task,
\* either the agent is stopped or a state follows in which its log holds the
\* outcome of every submitted task ("Task completed successfully" when no
\* step raised), its progress is 0 and its queue is empty.
C11_TaskEventuallyFinished ==
    \A a \in agents :
        (agent_status[a] = "running" /\ Done(a) # 1..Submitted(a))
            ~> (agent_status[a] # "running" \/ AllFinished(a))

\* The agent was started once and never stopped, and its task has completed.
C11_Witness ==
    /\ agent_status["Planner"] = "running"
    /\ CountText(agent_logs["Planner"], "Agent stopped") = 0
    /\ Submitted("Planner") = 1
    /\ CountText(agent_logs["Planner"], "Task completed successfully") = 1
    /\ AllFinished("Planner")

\* The position of the first entry with the given text in a log (0: none).
FirstText(log, text) ==
    IF \E k \in DOMAIN log : log[k].text = text
    THEN CHOOSE k \in DOMAIN log :
             log[k].text = text /\ \A j \in 1..(k - 1) : log[j].text # text
    ELSE 0

\* C12: a raising step does not end the worker.  The thread whose call of
\* task(step, task_steps) raised appends exactly one "Task failed" entry (the
\* one outcome of that task), then resets progress to 0, drops the task
\* without another call of it and stands at the loop condition again; no
\* task has two outcome entries, so a failed task has no completion entry.
C12_FailureKeepsWorker ==
    /\ [](\A a \in agents :
            \A j, k \in DOMAIN finished[a] : finished[a][j] = finished[a][k] => j = k)
    /\ [][\A i \in DOMAIN threads :
            LET a == Agent(i)
                t == threads[i]
                u == threads'[i]
            IN  /\ (t.pc = "fail_log" /\ u.pc # "fail_log")
                      => /\ u.pc = "fail_reset"
                         /\ u.task = t.task
                         /\ Len(agent_logs'[a]) = Len(agent_logs[a]) + 1
                         /\ SubSeq(agent_logs'[a], 1, Len(agent_logs[a])) = agent_logs[a]
                         /\ agent_logs'[a][Len(agent_logs'[a])].text = "Task failed"
                         /\ finished'[a] = Append(finished[a], t.task[1].id)
                /\ (t.pc = "fail_reset" /\ u.pc # "fail_reset")
                      => /\ u.pc = "check"
                         /\ u.task = None
                         /\ agent_progress'[a] = 0
                         /\ agent_logs'[a] = agent_logs[a]
                         /\ agent_queues'[a] = agent_queues[a]]_vars

\* The only thread of an agent has logged the failure of one task and then
\* the completion of the next, and the agent is still running.
C12_Witness ==
    \E a \in agents :
        /\ Cardinality(ThreadsOf(a)) = 1
        /\ agent_status[a] = "running"
        /\ FirstText(agent_logs[a], "Task failed") > 0
        /\ FirstText(agent_logs[a], "Task failed")
               < FirstText(agent_logs[a], "Task completed successfully")
        /\ finished[a] = <<1, 2>>

\* C13: the status of an agent changes only in a run of the script in which
\* Start or Stop is clicked for that agent: Start takes idle or stopped to
\* running, Stop takes running to stopped; no step of a thread changes a
\* status, and no step takes a status to idle.
C13_StatusTransitions ==
    [][\A a \in agents :
          agent_status'[a] # agent_status[a]
              => \/ /\ Click(a, "start")
                    /\ agent_status[a] \in {"idle", "stopped"}
                    /\ agent_status'[a] = "running"
                 \/ /\ Click(a, "stop")
                    /\ agent_status[a] = "running"
                    /\ agent_status'[a] = "stopped"]_vars

\* An agent started, stopped and started again, running, after its threads
\* have completed a task and met a raising step.
C13_Witness ==
    \E a \in agents :
        /\ agent_status[a] = "running"
        /\ CountText(agent_logs[a], "Agent started") = 2
        /\ CountText(agent_logs[a], "Agent stopped") = 1
        /\ CountText(agent_logs[a], "Task completed successfully") = 1
        /\ CountText(agent_logs[a], "Task failed") = 1

\* C14: under fair scheduling, once stop has set the status of an agent to
\* stopped, every thread of that agent that exists at that time eventually
\* leaves its loop, also when a start follows the stop; and a thread that has
\* left its loop takes no further step.
C14_WorkersTerminateAfterStop ==
    /\ \A i \in 1..FairStarts :
           (i \in DOMAIN threads /\ agent_status[threads[i].agent] = "stopped")
               ~> (i \in DOMAIN threads /\ threads[i].pc = "exit")
    /\ [][\A i \in DOMAIN threads : threads[i].pc = "exit" => threads'[i] = threads[i]]_vars

\* C15: a thread leaves its loop only at the loop condition of line 39, on a
\* status other than running: a thread that waits for a task, has met the
\* timeout of the queue, or ends a task (completed or failed) goes on inside
\* the loop; so the thread of the last start is active as long as the agent
\* is running.
C15_ExitOnlyAtCheck ==
    /\ [](\A a \in agents :
            agent_status[a] = "running"
                => agent_threads[a] # None /\ threads[agent_threads[a][1]].pc # "exit")
    /\ [][\A i \in DOMAIN threads :
            /\ threads'[i].pc = "exit"
                  => \/ threads[i].pc = "exit"
                     \/ threads[i].pc = "check" /\ agent_status[Agent(i)] # "running"
            /\ (threads[i].pc \in {"get", "idle_now", "idle_store", "ok_reset", "fail_reset"}
                    /\ threads'[i].pc # threads[i].pc)
                  => threads'[i].pc \in {"call", "idle_now", "idle_store", "check"}]_vars

\* The only thread of a running agent has failed one task, completed another
\* and then met the timeout of the empty queue, and is in its loop.
C15_Witness ==
    \E a \in agents :
        /\ agent_status[a] = "running"
        /\ ThreadsOf(a) = {agent_threads[a][1]}
        /\ CountText(agent_logs[a], "Agent stopped") = 0
        /\ CountText(agent_logs[a], "Task failed") = 1
        /\ CountText(agent_logs[a], "Task completed successfully") = 1
        /\ agent_queues[a] = << >>
        /\ threads[agent_threads[a][1]].pc = "idle_store"

\* C16: in every reachable state an agent has an entry in agent_threads if
\* and only if its status is running.
C16_HandleIffRunning ==
    \A a \in agents : (agent_threads[a] # None) <=> (agent_status[a] = "running")

\* The threads of agent a that execute a task: they hold one whose outcome
\* is not logged yet.
InExecution(a) ==
    {i \in ThreadsOf(a) : threads[i].pc \in {"call", "hb_now", "hb_store", "fail_log", "ok_log"}}

\* The tasks waiting in the queue of agent a.
Queued(a) == {agent_queues[a][k].id : k \in DOMAIN agent_queues[a]}

\* The tasks in execution by the threads of agent a.
Held(a) == {threads[i].task[1].id : i \in InExecution(a)}

\* C17: every accepted task is in exactly one place: waiting in the queue
\* once, or in execution by one thread, or finished with one outcome entry,
\* with any number of threads on the queue; so outcome entries plus tasks in
\* execution plus queue size equals the accepted submissions.
C17_TaskConservation ==
    \A a \in agents :
        /\ Outcomes(a) + Cardinality(InExecution(a)) + Len(agent_queues[a]) = Submitted(a)
        /\ Cardinality(Queued(a)) = Len(agent_queues[a])
        /\ Cardinality(Held(a)) = Cardinality(InExecution(a))
        /\ Cardinality(Done(a)) = Len(finished[a])
        /\ Len(finished[a]) = Outcomes(a)
        /\ Queued(a) \cap Held(a) = {}
        /\ Queued(a) \cap Done(a) = {}
        /\ Held(a) \cap Done(a) = {}
        /\ Queued(a) \cup Held(a) \cup Done(a) = 1..Submitted(a)

\* Two threads of one agent execute a task each, after a stop and a start.
C17_Witness ==
    \E a \in agents :
        /\ Cardinality(InExecution(a)) = 2
        /\ Held(a) = {1, 2}
        /\ CountText(agent_logs[a], "Agent stopped") = 1

\* The position of the n-th entry with the given text in a log (0: none).
NthText(log, text, n) ==
    IF CountText(log, text) >= n /\ n > 0
    THEN CHOOSE k \in DOMAIN log :
             log[k].text = text /\ CountText(SubSeq(log, 1, k), text) = n
    ELSE 0

\* The position of the last entry with the given text in a log (0: none).
LastText(log, text) == NthText(log, text, CountText(log, text))

\* Thread i is the n-th thread of its agent, the one of the n-th "Agent started".
ThreadRank(i) == Cardinality({j \in ThreadsOf(Agent(i)) : j <= i})

\* C18: a stop leaves the queue of the agent as it is and logs nothing but
\* "Agent stopped"; a submission with content is accepted in every status
\* and appends the task at the tail of the queue and one "Task queued" entry
\* to the log; and a task that was pending at a stop is taken from the head
\* of the queue by the thread of a later start.
C18_StopKeepsQueue ==
    [][\A a \in agents :
          /\ Click(a, "stop")
                => /\ agent_queues' = agent_queues
                   /\ \/ agent_logs' = agent_logs
                      \/ agent_logs'[a] = Append(agent_logs[a], LogEntry("Agent stopped", ""))
          /\ (Click(a, "submit") /\ ~NoContent(ui'))
                => /\ Len(agent_queues'[a]) = Len(agent_queues[a]) + 1
                   /\ SubSeq(agent_queues'[a], 1, Len(agent_queues[a])) = agent_queues[a]
                   /\ agent_logs'[a] = Append(agent_logs[a], LogEntry("Task queued", ui'.task_type))
          /\ \A i \in ThreadsOf(a) :
                (threads[i].pc = "get" /\ threads'[i].pc = "call")
                    => LET log == agent_logs[a]
                           k == threads'[i].task[1].id
                       IN  /\ threads'[i].task[1] = Head(agent_queues[a])
                           /\ NthText(log, "Task queued", k) < LastText(log, "Agent stopped")
                                 => LastText(log, "Agent stopped")
                                       < NthText(log, "Agent started", ThreadRank(i))]_vars

\* C19: while the status of an agent is stopped, no thread of that agent
\* takes a task from the queue or begins the first step of a task.
C19_NoDequeueWhileStopped ==
    [][\A i \in DOMAIN threads :
          (\/ threads[i].pc = "get" /\ threads'[i].pc = "call"
           \/ threads[i].pc = "call" /\ threads[i].step = 1 /\ threads'[i].pc # "call")
              => agent_status[Agent(i)] # "stopped"]_vars

\* C20: the agents are isolated.  A run of the script in which a button is
\* clicked for agent a, and a step of a thread of agent a (a raising step and
\* its handling included), leave the status, log, heartbeat, progress, queue,
\* thread entry and threads of every other agent as they are; no step
\* changes anything of two agents.
C20_AgentsIsolated ==
    [][LET Changed(b) ==
               \/ agent_status'[b] # agent_status[b]
               \/ agent_logs'[b] # agent_logs[b]
               \/ last_heartbeat'[b] # last_heartbeat[b]
               \/ agent_progress'[b] # agent_progress[b]
               \/ agent_queues'[b] # agent_queues[b]
               \/ agent_threads'[b] # agent_threads[b]
               \/ finished'[b] # finished[b]
               \/ \E i \in DOMAIN threads' :
                     threads'[i].agent = b /\ (i \notin DOMAIN threads \/ threads'[i] # threads[i])
           Acts(a) ==
               \/ ui' # ui /\ ui'.selected_agent = a /\ ui'.button # "none"
               \/ \E i \in ThreadsOf(a) : threads'[i].pc # threads[i].pc
       IN  /\ \A a, b \in agents : (a # b /\ Acts(a)) => ~Changed(b)
           /\ Cardinality({b \in agents : Changed(b)}) <= 1]_vars

\* The thread of one agent has logged a failed task while another agent,
\* started and stopped, still holds its queued task and has logged nothing
\* but its own start, submission and stop.
C20_Witness ==
    \E a, b \in agents :
        /\ a # b
        /\ agent_status[a] = "running"
        /\ CountText(agent_logs[a], "Task failed") = 1
        /\ agent_status[b] = "stopped"
        /\ Len(agent_queues[b]) = 1
        /\ Len(agent_logs[b]) = 3
        /\ agent_progress[b] = 0
        /\ last_heartbeat[b] = None

====
